---- MODULE Spec2Model ----
(***************************************************************************)
(* Random_Walk_Simulator-Vectorization.ipynb: the three engines that       *)
(* simulate a biased +-1 random walk (single_trajectory,                   *)
(* vectorized_single_trajectory, multiple_trajectories), the encoder       *)
(* convert_value, the checker check_vec and the mean/variance reduction.   *)
(*                                                                         *)
(* The notebook is a fill-in skeleton: each function is a signature, a     *)
(* docstring, one comment per statement to write and the return.  Every    *)
(* operator below is the statement its comment or docstring prescribes;    *)
(* check_vec is the only function whose statements are written out.        *)
(*                                                                         *)
(* numpy's generator is the module-level one (np.random.seed /             *)
(* np.random.binomial).  Its output after seed(s) is a fixed sequence of   *)
(* uniform variates; the model takes that sequence as an arbitrary table   *)
(* per seed, of period StreamLen, with variates quantised to Variates and  *)
(* a bias p given as the numerator of p / PDen.                            *)
(***************************************************************************)
EXTENDS Integers, Sequences, FiniteSets, TLC

\* ---------------------------------------------------------------- bounds
StreamLen == 2
MaxT == 10
MaxN == 3
MaxCheckLen == 2
MaxAbsDisp == 2
\* the expectation is summed for p = a / MeanDen and walks of up to MaxMeanT steps
MeanDen == 4
MaxMeanT == 4
\* tables of up to MaxRowsN rows and MaxRowsT columns are worked row by row
MaxRowsN == 2
MaxRowsT == 2

\* np.isclose defaults: atol = 1e-8 = 1/AtolInv, rtol = 1e-5 = RtolScaled/AtolInv
AtolInv == 100000000
RtolScaled == 1000

Seeds == {0, 42}
\* the quantised uniform variates, and the bias p as the numerator of p / PDen:
\* 0 is p = 0, PDen is p = 1, PDen + 1 is a p above 1
Variates == {0, 1}
PDen == Cardinality(Variates)
PValues == 0 .. (PDen + 1)
Streams == [Seeds -> [1 .. StreamLen -> Variates]]

VARIABLES
    stream,        \* the generator's variates as a function of the seed
    rng,           \* numpy's global generator: [seed, pos], pos variates into the period
    pc,            \* "idle", "loop" (inside single_trajectory's for loop), "done"
    call,          \* the function called and its arguments
    displacement,  \* single_trajectory's displacement counter
    displacements, \* single_trajectory's list
    draws,         \* the binomial values drawn by the current call
    steps,         \* those values converted to steps
    result,        \* the value returned by the call
    error,         \* "none" or the exception the call ended in
    stale,         \* at entry the generator was not in the state seed(Seed) gives
    stats,         \* mean and variance over the trajectories of result, or <<>>
    chk            \* check_vec: the two trajectories compared and the outcome

vars == <<stream, rng, pc, call, displacement, displacements, draws, steps,
          result, error, stale, stats, chk>>

\* ------------------------------------------------------------- generator
ValidP(p) == 0 <= p /\ p <= PDen

\* the i-th variate (1-based) after seeding with s
Uniform(s, i) == stream[s][((i - 1) % StreamLen) + 1]

\* faulty variant: the threshold taken inclusively
Bernoulli_le(u, p) == IF u <= p THEN 1 ELSE 0
\* one binomial(1, p) outcome from one variate: 1 with probability p
Bernoulli(u, p) == IF u < p THEN 1 ELSE 0

\* the generator after n more variates; its state is the place in the period
Advance(g, n) == [g EXCEPT !.pos = (@ + n) % StreamLen]

\* faulty variant: the seed is never set
seed_ignored(g, s) == g
\* np.random.seed(s)
np_random_seed(g, s) == [seed |-> s, pos |-> 0]

\* np.random.binomial(1, p): one value, one variate consumed
np_random_binomial(g, p) ==
    [value |-> Bernoulli(Uniform(g.seed, g.pos + 1), p),
     rng |-> Advance(g, 1)]

\* np.random.binomial(1, p, size=T): T values, the next T variates in order
np_random_binomial_size(g, p, T) ==
    [values |-> [i \in 1 .. T |-> Bernoulli(Uniform(g.seed, g.pos + i), p)],
     rng |-> Advance(g, T)]

\* faulty variant: the table filled column by column (Fortran order)
binomial_column_major(g, p, rows, cols) ==
    [values |-> [j \in 1 .. rows |-> [t \in 1 .. cols |->
                    Bernoulli(Uniform(g.seed, g.pos + (t - 1) * rows + j), p)]],
     rng |-> Advance(g, rows * cols)]
\* faulty variant: size=(cols, rows)
binomial_shape_swapped(g, p, rows, cols) ==
    [values |-> [j \in 1 .. cols |-> [t \in 1 .. rows |->
                    Bernoulli(Uniform(g.seed, g.pos + (j - 1) * rows + t), p)]],
     rng |-> Advance(g, rows * cols)]
\* np.random.binomial(1, p, size=(rows, cols)): filled in C (row-major) order
np_random_binomial_shape(g, p, rows, cols) ==
    [values |-> [j \in 1 .. rows |-> [t \in 1 .. cols |->
                    Bernoulli(Uniform(g.seed, g.pos + (j - 1) * cols + t), p)]],
     rng |-> Advance(g, rows * cols)]

\* --------------------------------------------------------------- encoder
Max(a, b) == IF a >= b THEN a ELSE b
Min(a, b) == IF a <= b THEN a ELSE b
Abs(a) == IF a >= 0 THEN a ELSE -a

\* faulty variant: min in place of max
convert_value_min(value) == value - 1 + Min(0, value)
\* x -> x - 1 + max(0, x)
convert_value(value) == value - 1 + Max(0, value)

\* faulty variant: the values are not converted
convert_forgotten(value) == value
\* faulty variant: heads mapped to -1 and tails to +1
convert_sign_flipped(value) == [i \in 1 .. Len(value) |-> 1 - 2 * value[i]]
\* the same mapping on an array, element by element (np.maximum)
vectorized_convert_value(value) ==
    [i \in 1 .. Len(value) |-> value[i] - 1 + Max(0, value[i])]

\* ---------------------------------------------------------------- cumsum
RECURSIVE PrefixSum(_, _)
PrefixSum(a, t) == IF t = 0 THEN 0 ELSE PrefixSum(a, t - 1) + a[t]

\* faulty variant: the steps returned without the cumulative sum
cumsum_forgotten(a) == a
\* np.cumsum of a one-dimensional array
np_cumsum(a) == [t \in 1 .. Len(a) |-> PrefixSum(a, t)]

RECURSIVE ColumnSum(_, _, _)
ColumnSum(table, j, t) ==
    IF j = 0 THEN 0 ELSE ColumnSum(table, j - 1, t) + table[j][t]

\* faulty variant: np.cumsum(table, axis=0), down each column
np_cumsum_axis0(table) ==
    [j \in 1 .. Len(table) |-> [t \in 1 .. Len(table[j]) |-> ColumnSum(table, j, t)]]
\* np.cumsum(table, axis=1): along each row
np_cumsum_axis1(table) == [j \in 1 .. Len(table) |-> np_cumsum(table[j])]

\* --------------------------------------------------------------- engines
single_update_raw(g, p) ==
    LET b == np_random_binomial(g, p)
    IN  [value |-> b.value, step |-> b.value, rng |-> b.rng]

single_update(g, p) ==
    LET b == np_random_binomial(g, p)
    IN  [value |-> b.value, step |-> convert_value(b.value), rng |-> b.rng]

vectorized_single_trajectory(g, p, T, Seed) ==
    LET g1 == np_random_seed(g, Seed)
        b == np_random_binomial_size(g1, p, T)
        st == vectorized_convert_value(b.values)
    IN  [displacements |-> np_cumsum(st), draws |-> b.values, steps |-> st,
         rng |-> b.rng]

multiple_trajectories(g, p, T, numTrajectories, startSeed) ==
    LET g1 == np_random_seed(g, startSeed)
        b == np_random_binomial_shape(g1, p, numTrajectories, T)
        st == [j \in 1 .. Len(b.values) |-> vectorized_convert_value(b.values[j])]
    IN  [trajectories |-> np_cumsum_axis1(st), draws |-> b.values, steps |-> st,
         rng |-> b.rng]

\* ------------------------------------------------------------- check_vec
\* np.isclose(a, b): |a - b| <= atol + rtol * |b|
isclose(a, b) == Abs(a - b) * AtolInv <= 1 + RtolScaled * Abs(b)

\* faulty variant: .any() in place of .all()
isclose_any(vec, loop) ==
    LET difference == [i \in 1 .. Len(vec) |-> vec[i] - loop[i]]
    IN  Len(vec) = 0 \/ \E i \in 1 .. Len(difference) : isclose(difference[i], 0)
\* difference = vec - np.array(loop); np.isclose(difference, 0).all()
check_vec_assert(vec, loop) ==
    LET difference == [i \in 1 .. Len(vec) |-> vec[i] - loop[i]]
    IN  \A i \in 1 .. Len(difference) : isclose(difference[i], 0)

\* ------------------------------------------------------- mean and variance
RECURSIVE GCD(_, _)
GCD(a, b) == IF b = 0 THEN a ELSE GCD(b, a % b)

\* the fraction n / d, d > 0, in lowest terms; NaN is 0 / 0
NaN == <<0, 0>>
Rat(n, d) == LET g == GCD(Abs(n), d) IN <<n \div g, d \div g>>
RatMul(a, b) == IF a = NaN \/ b = NaN THEN NaN ELSE Rat(a[1] * b[1], a[2] * b[2])
RatSub(a, b) ==
    IF a = NaN \/ b = NaN THEN NaN ELSE Rat(a[1] * b[2] - b[1] * a[2], a[2] * b[2])

\* faulty variant: np.mean(table, axis=1), over the timesteps, per row
np_mean_axis1(table, N, T) ==
    [j \in 1 .. N |-> IF T = 0 THEN NaN ELSE Rat(PrefixSum(table[j], T), T)]
\* np.mean(table, axis=0) of a table of shape (N, T): over the rows, per timestep
np_mean_axis0(table, N, T) ==
    [t \in 1 .. T |-> IF N = 0 THEN NaN ELSE Rat(ColumnSum(table, N, t), N)]

Squares(table) ==
    [j \in 1 .. Len(table) |-> [t \in 1 .. Len(table[j]) |-> table[j][t] * table[j][t]]]

\* <X^2> - <X>^2, the averages taken over the trajectories
variance(table, N, T) ==
    LET m == np_mean_axis0(table, N, T)
        m2 == np_mean_axis0(Squares(table), N, T)
    IN  [t \in 1 .. Len(m) |-> RatSub(m2[t], RatMul(m[t], m[t]))]

\* ------------------------------------------------------------------ state
NoCall == [fn |-> "none", p |-> 0, T |-> 0, numTrajectories |-> 0, Seed |-> 0]
NoCheck == [vec |-> <<>>, loop |-> <<>>, outcome |-> "none"]

Init ==
    /\ stream \in Streams
    /\ rng \in [seed : Seeds, pos : {0}]
    /\ pc = "idle"
    /\ call = NoCall
    /\ displacement = 0
    /\ displacements = <<>>
    /\ draws = <<>>
    /\ steps = <<>>
    /\ result = <<>>
    /\ error = "none"
    /\ stale = FALSE
    /\ stats = <<>>
    /\ chk = NoCheck

\* single_trajectory(p, T, Seed): initialise the list and the counter, seed
Call_single_trajectory ==
    \E p \in PValues, T \in 0 .. MaxT, Seed \in Seeds :
        /\ pc = "idle"
        /\ call' = [fn |-> "single_trajectory", p |-> p, T |-> T,
                    numTrajectories |-> 1, Seed |-> Seed]
        /\ displacements' = <<>>
        /\ displacement' = 0
        /\ stale' = (rng # [seed |-> Seed, pos |-> 0])
        /\ rng' = np_random_seed(rng, Seed)
        /\ draws' = <<>>
        /\ steps' = <<>>
        /\ result' = <<>>
        /\ error' = "none"
        /\ stats' = <<>>
        /\ pc' = "loop"
        /\ UNCHANGED <<stream, chk>>

\* faulty variant: the raw step is appended, not the running total
Step_appends_raw_step ==
    /\ pc = "loop"
    /\ Len(displacements) < call.T
    /\ IF ValidP(call.p)
       THEN LET u == single_update(rng, call.p)
            IN  /\ rng' = u.rng
                /\ draws' = Append(draws, u.value)
                /\ steps' = Append(steps, u.step)
                /\ displacement' = displacement + u.step
                /\ displacements' = Append(displacements, u.step)
                /\ UNCHANGED <<pc, error>>
       ELSE /\ pc' = "done"
            /\ error' = "ValueError"
            /\ UNCHANGED <<rng, draws, steps, displacement, displacements>>
    /\ UNCHANGED <<stream, call, result, stale, stats, chk>>

\* one iteration of the for loop: draw, convert, accumulate, append
Step_single_trajectory ==
    /\ pc = "loop"
    /\ Len(displacements) < call.T
    /\ IF ValidP(call.p)
       THEN LET u == single_update(rng, call.p)
            IN  /\ rng' = u.rng
                /\ draws' = Append(draws, u.value)
                /\ steps' = Append(steps, u.step)
                /\ displacement' = displacement + u.step
                /\ displacements' = Append(displacements, displacement + u.step)
                /\ UNCHANGED <<pc, error>>
       ELSE /\ pc' = "done"
            /\ error' = "ValueError"
            /\ UNCHANGED <<rng, draws, steps, displacement, displacements>>
    /\ UNCHANGED <<stream, call, result, stale, stats, chk>>

Return_single_trajectory ==
    /\ pc = "loop"
    /\ call.fn = "single_trajectory"
    /\ Len(displacements) = call.T
    /\ result' = displacements
    /\ pc' = "done"
    /\ UNCHANGED <<stream, rng, call, displacement, displacements, draws, steps,
                   error, stale, stats, chk>>

Call_vectorized_single_trajectory ==
    \E p \in PValues, T \in 0 .. MaxT, Seed \in Seeds :
        LET r == vectorized_single_trajectory(rng, p, T, Seed)
        IN  /\ pc = "idle"
            /\ call' = [fn |-> "vectorized_single_trajectory", p |-> p, T |-> T,
                        numTrajectories |-> 1, Seed |-> Seed]
            /\ stale' = (rng # [seed |-> Seed, pos |-> 0])
            /\ IF ValidP(p)
               THEN /\ rng' = r.rng
                    /\ draws' = r.draws
                    /\ steps' = r.steps
                    /\ result' = r.displacements
                    /\ error' = "none"
               ELSE /\ rng' = np_random_seed(rng, Seed)
                    /\ draws' = <<>>
                    /\ steps' = <<>>
                    /\ result' = <<>>
                    /\ error' = "ValueError"
            /\ displacement' = 0
            /\ displacements' = <<>>
            /\ stats' = <<>>
            /\ pc' = "done"
            /\ UNCHANGED <<stream, chk>>

Call_multiple_trajectories ==
    \E p \in PValues, T \in 0 .. MaxT, N \in 0 .. MaxN, Seed \in Seeds :
        LET r == multiple_trajectories(rng, p, T, N, Seed)
        IN  /\ pc = "idle"
            /\ call' = [fn |-> "multiple_trajectories", p |-> p, T |-> T,
                        numTrajectories |-> N, Seed |-> Seed]
            /\ stale' = (rng # [seed |-> Seed, pos |-> 0])
            /\ IF ValidP(p)
               THEN /\ rng' = r.rng
                    /\ draws' = r.draws
                    /\ steps' = r.steps
                    /\ result' = r.trajectories
                    /\ error' = "none"
               ELSE /\ rng' = np_random_seed(rng, Seed)
                    /\ draws' = <<>>
                    /\ steps' = <<>>
                    /\ result' = <<>>
                    /\ error' = "ValueError"
            /\ displacement' = 0
            /\ displacements' = <<>>
            /\ stats' = <<>>
            /\ pc' = "done"
            /\ UNCHANGED <<stream, chk>>

\* check_vec(p, T, Seed): the vectorized trajectory first, then the call of
\* single_trajectory, whose loop runs in Step_single_trajectory
Call_check_vec ==
    \E p \in PValues, T \in 0 .. MaxT, Seed \in Seeds :
        LET r == vectorized_single_trajectory(rng, p, T, Seed)
        IN  /\ pc = "idle"
            /\ call' = [fn |-> "check_vec", p |-> p, T |-> T,
                        numTrajectories |-> 1, Seed |-> Seed]
            /\ stale' = (rng # [seed |-> Seed, pos |-> 0])
            /\ IF ValidP(p)
               THEN /\ chk' = [vec |-> r.displacements, loop |-> <<>>,
                               outcome |-> "none"]
                    /\ rng' = np_random_seed(r.rng, Seed)
                    /\ error' = "none"
                    /\ pc' = "loop"
               ELSE /\ chk' = NoCheck
                    /\ rng' = np_random_seed(rng, Seed)
                    /\ error' = "ValueError"
                    /\ pc' = "done"
            /\ displacement' = 0
            /\ displacements' = <<>>
            /\ draws' = <<>>
            /\ steps' = <<>>
            /\ result' = <<>>
            /\ stats' = <<>>
            /\ UNCHANGED stream

\* single_trajectory has returned to check_vec: subtract and assert
Assert_check_vec ==
    /\ pc = "loop"
    /\ call.fn = "check_vec"
    /\ Len(displacements) = call.T
    /\ chk' = [chk EXCEPT !.loop = displacements,
                          !.outcome = IF check_vec_assert(chk.vec, displacements)
                                      THEN "returned" ELSE "AssertionError"]
    /\ error' = IF check_vec_assert(chk.vec, displacements)
                THEN "none" ELSE "AssertionError"
    /\ pc' = "done"
    /\ UNCHANGED <<stream, rng, call, displacement, displacements, draws, steps,
                   result, stale, stats>>

\* the mean and the variance over the trajectories of a returned table
Reduce ==
    /\ pc = "done"
    /\ call.fn = "multiple_trajectories"
    /\ error = "none"
    /\ stats = <<>>
    /\ LET N == Len(result)
           T == IF Len(result) > 0 THEN Len(result[1]) ELSE call.T
       IN  stats' = <<[mean |-> np_mean_axis0(result, N, T),
                       var |-> variance(result, N, T)]>>
    /\ UNCHANGED <<stream, rng, pc, call, displacement, displacements, draws,
                   steps, result, error, stale, chk>>

\* the caller is done with the returned value; the generator keeps its state
Discard ==
    /\ pc = "done"
    /\ pc' = "idle"
    /\ call' = NoCall
    /\ displacement' = 0
    /\ displacements' = <<>>
    /\ draws' = <<>>
    /\ steps' = <<>>
    /\ result' = <<>>
    /\ error' = "none"
    /\ stale' = FALSE
    /\ stats' = <<>>
    /\ chk' = NoCheck
    /\ UNCHANGED <<stream, rng>>

Next ==
    \/ Call_single_trajectory
    \/ Step_single_trajectory
    \/ Return_single_trajectory
    \/ Call_vectorized_single_trajectory
    \/ Call_multiple_trajectories
    \/ Call_check_vec
    \/ Assert_check_vec
    \/ Reduce
    \/ Discard

Spec == Init /\ [][Next]_vars

\* ------------------------------------------------ check_vec on any two arrays
\* check_vec at its assert, for any two integer trajectories of one length
Displacements == (0 - MaxAbsDisp) .. MaxAbsDisp
Trajectories(n) == [1 .. n -> Displacements]

InitCheck ==
    /\ stream = [s \in Seeds |-> [i \in 1 .. StreamLen |-> 0]]
    /\ rng = [seed |-> 0, pos |-> 0]
    /\ pc = "loop"
    /\ \E n \in 0 .. MaxCheckLen :
          /\ call = [fn |-> "check_vec", p |-> 0, T |-> n,
                     numTrajectories |-> 1, Seed |-> 0]
          /\ displacements \in Trajectories(n)
          /\ chk \in [vec : Trajectories(n), loop : {<<>>}, outcome : {"none"}]
    /\ displacement = 0
    /\ draws = <<>>
    /\ steps = <<>>
    /\ result = <<>>
    /\ error = "none"
    /\ stale = FALSE
    /\ stats = <<>>

NextCheck ==
    \/ Assert_check_vec
    \/ Discard

SpecCheck == InitCheck /\ [][NextCheck]_vars

\* ------------------------------------------- the expected value of X_T
\* <X_T> as the sum of X_T over every sequence of T coin outcomes, each with
\* its probability; p = call.p / MeanDen, and a probability is kept as the
\* number of the MeanDen equally likely variates that give the outcome
MeanVariates == 0 .. (MeanDen - 1)
Outcomes(value, p) == Cardinality({u \in MeanVariates : Bernoulli(u, p) = value})

RECURSIVE Probability(_, _, _)
Probability(values, p, t) ==
    IF t = 0 THEN 1 ELSE Probability(values, p, t - 1) * Outcomes(values[t], p)

\* the sequence of outcomes after this one, tails before heads at each step
RECURSIVE NextOutcomes(_, _)
NextOutcomes(values, t) ==
    IF t = 0 THEN values
    ELSE IF values[t] = 0 THEN [values EXCEPT ![t] = 1]
         ELSE NextOutcomes([values EXCEPT ![t] = 0], t - 1)

InitMean ==
    /\ stream = [s \in Seeds |-> [i \in 1 .. StreamLen |-> 0]]
    /\ rng = [seed |-> 0, pos |-> 0]
    /\ pc = "loop"
    /\ \E a \in 0 .. MeanDen, T \in 1 .. MaxMeanT :
          /\ call = [fn |-> "expected_value", p |-> a, T |-> T,
                     numTrajectories |-> 1, Seed |-> 0]
          /\ draws = [t \in 1 .. T |-> 0]
    /\ displacement = 0
    /\ displacements = <<>>
    /\ steps = <<>>
    /\ result = <<>>
    /\ error = "none"
    /\ stale = FALSE
    /\ stats = [sum |-> 0, weight |-> 0]
    /\ chk = NoCheck

\* one term of the sum: the walk of the current outcomes, X_T times its
\* probability, then on to the next sequence of outcomes
Add_walk ==
    /\ pc = "loop"
    /\ LET st == vectorized_convert_value(draws)
           x == np_cumsum(st)
           w == Probability(draws, call.p, call.T)
       IN  /\ steps' = st
           /\ displacements' = x
           /\ displacement' = x[Len(x)]
           /\ stats' = [sum |-> stats.sum + w * x[Len(x)],
                        weight |-> stats.weight + w]
    /\ IF \A t \in 1 .. call.T : draws[t] = 1
       THEN pc' = "done" /\ draws' = draws
       ELSE pc' = pc /\ draws' = NextOutcomes(draws, call.T)
    /\ UNCHANGED <<stream, rng, call, result, error, stale, chk>>

NextMean == Add_walk

SpecMean == InitMean /\ [][NextMean]_vars

\* ------------------------------------ the batch table worked row by row
\* the last two steps of multiple_trajectories (encode, cumulative sum along
\* axis=1) on any drawn table, done one element of one row at a time, the
\* rows taken in any order and interleaved in any way
Tables(n, T) == [1 .. n -> [1 .. T -> Variates]]

InitRows ==
    /\ stream = [s \in Seeds |-> [i \in 1 .. StreamLen |-> 0]]
    /\ rng = [seed |-> 0, pos |-> 0]
    /\ pc = "rows"
    /\ \E n \in 1 .. MaxRowsN, T \in 1 .. MaxRowsT :
          /\ call = [fn |-> "multiple_trajectories", p |-> 1, T |-> T,
                     numTrajectories |-> n, Seed |-> 0]
          /\ draws \in Tables(n, T)
          /\ steps = [j \in 1 .. n |-> <<>>]
          /\ result = [j \in 1 .. n |-> <<>>]
    /\ displacement = 0
    /\ displacements = <<>>
    /\ error = "none"
    /\ stale = FALSE
    /\ stats = <<>>
    /\ chk = NoCheck

\* the next element of row j: encode the draw, add it to the row's total
Row_step ==
    /\ pc = "rows"
    /\ \E j \in 1 .. call.numTrajectories :
          LET t == Len(result[j]) + 1
              step == convert_value(draws[j][t])
              before == IF t = 1 THEN 0 ELSE result[j][t - 1]
          IN  /\ t <= call.T
              /\ steps' = [steps EXCEPT ![j] = Append(@, step)]
              /\ result' = [result EXCEPT ![j] = Append(@, before + step)]
    /\ UNCHANGED <<stream, rng, pc, call, displacement, displacements, draws,
                   error, stale, stats, chk>>

\* every row is complete: the table is returned
Return_rows ==
    /\ pc = "rows"
    /\ \A j \in 1 .. call.numTrajectories : Len(result[j]) = call.T
    /\ pc' = "done"
    /\ UNCHANGED <<stream, rng, call, displacement, displacements, draws, steps,
                   result, error, stale, stats, chk>>

NextRows ==
    \/ Row_step
    \/ Return_rows

SpecRows == InitRows /\ [][NextRows]_vars

\* ----------------------------------------------------------------- claims
Engines == {"single_trajectory", "vectorized_single_trajectory",
            "multiple_trajectories"}
Returned(f) == pc = "done" /\ call.fn = f /\ error = "none"
ValidArgs == ValidP(call.p) /\ call.T >= 1 /\ call.numTrajectories >= 1
Rises(a) == \E i \in 1 .. (Len(a) - 1) : a[i + 1] > a[i]
Falls(a) == \E i \in 1 .. (Len(a) - 1) : a[i + 1] < a[i]

\* C1: for valid (p, T, Seed) the trajectory single_trajectory returns and the
\* one vectorized_single_trajectory returns for the same arguments have the
\* same length T and differ by exactly 0 at every index; check_vec, which
\* compares the two, returns normally
C1_ScalarEqualsVectorized ==
    /\ (pc = "done" /\ call.fn = "single_trajectory" /\ ValidArgs) =>
          LET v == vectorized_single_trajectory(rng, call.p, call.T,
                                                call.Seed).displacements
          IN  /\ error = "none"
              /\ Len(result) = call.T
              /\ Len(v) = call.T
              /\ \A i \in 1 .. call.T : result[i] - v[i] = 0
    /\ (pc = "done" /\ call.fn = "check_vec" /\ ValidArgs) =>
          /\ chk.outcome = "returned"
          /\ chk.vec = chk.loop
          /\ Len(chk.loop) = call.T
C1_Witness ==
    /\ Returned("single_trajectory")
    /\ call.T >= 3
    /\ Rises(result)
    /\ Falls(result)

\* C2: what a call returns (or the error it ends in) is determined by the
\* function and (p, T, N, seed) alone: it is the trajectory read off the
\* seed's variates from the first one on, whatever state earlier calls left
\* the generator in
ExpectedRow(p, T, s, off) ==
    [t \in 1 .. T |->
        2 * Cardinality({i \in 1 .. t : Uniform(s, off + i) < p}) - t]
ExpectedError ==
    IF ValidP(call.p) \/ (call.fn = "single_trajectory" /\ call.T = 0)
    THEN "none" ELSE "ValueError"
C2_PureFunctionOfArguments ==
    (pc = "done" /\ call.fn \in Engines) =>
        /\ error = ExpectedError
        /\ (error = "none" /\ call.fn # "multiple_trajectories") =>
              result = ExpectedRow(call.p, call.T, call.Seed, 0)
        /\ (error = "none" /\ call.fn = "multiple_trajectories") =>
              result = [j \in 1 .. call.numTrajectories |->
                          ExpectedRow(call.p, call.T, call.Seed, (j - 1) * call.T)]
C2_Witness ==
    /\ pc = "done"
    /\ call.fn \in Engines
    /\ error = "none"
    /\ stale
    /\ call.T >= 2
    /\ stream[0] # stream[42]

\* C3: for valid (p, T, seed) the one row of multiple_trajectories(p, T, 1, seed)
\* equals vectorized_single_trajectory(p, T, seed) element by element
C3_BatchOfOneIsVectorizedRow ==
    (pc = "done" /\ call.fn = "multiple_trajectories" /\ ValidArgs
        /\ call.numTrajectories = 1) =>
        LET v == vectorized_single_trajectory(rng, call.p, call.T,
                                              call.Seed).displacements
        IN  /\ error = "none"
            /\ Len(result) = 1
            /\ Len(result[1]) = Len(v)
            /\ \A t \in 1 .. Len(v) : result[1][t] = v[t]
C3_Witness ==
    /\ Returned("multiple_trajectories")
    /\ call.numTrajectories = 1
    /\ call.T >= 3
    /\ Rises(result[1])
    /\ Falls(result[1])

\* C4: for valid (p, T, N, seed) multiple_trajectories returns a table of
\* exactly N rows, each of exactly T columns
C4_Shape ==
    (pc = "done" /\ call.fn = "multiple_trajectories" /\ ValidArgs) =>
        /\ error = "none"
        /\ Len(result) = call.numTrajectories
        /\ \A j \in 1 .. Len(result) : Len(result[j]) = call.T
C4_Witness ==
    /\ Returned("multiple_trajectories")
    /\ call.numTrajectories = 1
    /\ call.T = 1
    /\ Len(result) = 1
    /\ Len(result[1]) = 1

\* C5: for valid (p, T, N, seed) every row of the table is a trajectory: it
\* starts at -1 or +1 and each entry differs from the one before it in the
\* same row by exactly -1 or +1
C5_RowsAreTrajectories ==
    (pc = "done" /\ call.fn = "multiple_trajectories" /\ ValidArgs) =>
        /\ error = "none"
        /\ \A j \in 1 .. Len(result) :
              /\ Len(result[j]) >= 1
              /\ result[j][1] \in {-1, 1}
              /\ \A t \in 2 .. Len(result[j]) :
                    result[j][t] - result[j][t - 1] \in {-1, 1}
C5_Witness ==
    /\ Returned("multiple_trajectories")
    /\ call.numTrajectories = 2
    /\ call.T >= 2
    /\ result[1] # result[2]
    /\ Rises(result[1])
    /\ Falls(result[1])

\* C6: the encoder sends 0 to -1 and 1 to +1, which is 2 * value - 1; on an
\* array it returns an array of the same shape, each element the scalar
\* encoder's value on the matching input element
EncodedByScalar(values, encoded) ==
    /\ Len(encoded) = Len(values)
    /\ \A i \in 1 .. Len(values) :
          /\ values[i] \in {0, 1}
          /\ encoded[i] = convert_value(values[i])
C6_Encoder ==
    /\ (pc \in {"loop", "done"} /\ call.fn \in {"single_trajectory", "check_vec"}) =>
          /\ Len(steps) = Len(draws)
          /\ \A i \in 1 .. Len(draws) :
                /\ draws[i] = 0 => steps[i] = -1
                /\ draws[i] = 1 => steps[i] = 1
                /\ steps[i] = 2 * draws[i] - 1
    /\ Returned("vectorized_single_trajectory") => EncodedByScalar(draws, steps)
    /\ Returned("multiple_trajectories") =>
          /\ Len(steps) = Len(draws)
          /\ \A j \in 1 .. Len(draws) : EncodedByScalar(draws[j], steps[j])
C6_Witness ==
    /\ Returned("multiple_trajectories")
    /\ call.numTrajectories = 2
    /\ call.T = 2
    /\ draws = <<(<<0, 1>>), (<<0, 1>>)>>
    /\ steps = <<(<<-1, 1>>), (<<-1, 1>>)>>

\* C7: with p = 0 every trajectory is -1, -2, ..., -T and with p = 1 it is
\* 1, 2, ..., T, for every seed and every T >= 1
C7_BoundaryBias ==
    (pc = "done" /\ call.fn \in Engines /\ ValidArgs /\ call.p \in {0, PDen}) =>
        LET row == [t \in 1 .. call.T |-> IF call.p = 0 THEN 0 - t ELSE t]
        IN  /\ error = "none"
            /\ call.fn # "multiple_trajectories" => result = row
            /\ call.fn = "multiple_trajectories" =>
                  result = [j \in 1 .. call.numTrajectories |-> row]
C7_Witness ==
    /\ Returned("single_trajectory")
    /\ call.p = PDen
    /\ call.T = 5
    /\ call.Seed = 42
    /\ result = <<1, 2, 3, 4, 5>>
    /\ \E i \in 1 .. StreamLen : stream[42][i] # 0

\* C8: a call with p outside [0, 1], T < 1 or N < 1 ends in an error, and no
\* value has been drawn from the generator when it does
C8_InvalidArgumentsFailFast ==
    (pc = "done" /\ call.fn \in Engines /\ ~ValidArgs) =>
        /\ error # "none"
        /\ draws = <<>>

\* C9: check_vec ends in AssertionError exactly when the two trajectories
\* it compares differ in at least one position, and returns normally when
\* they are identical
C9_CheckVecExact ==
    (pc = "done" /\ call.fn = "check_vec" /\ chk.outcome # "none") =>
        /\ (error = "AssertionError") <=>
              (\E i \in 1 .. Len(chk.vec) : chk.vec[i] # chk.loop[i])
        /\ (chk.vec = chk.loop) <=> (chk.outcome = "returned" /\ error = "none")
C9_Witness ==
    /\ pc = "done"
    /\ call.fn = "check_vec"
    /\ error = "AssertionError"
    /\ Len(chk.vec) = 2
    /\ chk.vec[1] = chk.loop[1]
    /\ chk.vec[2] - chk.loop[2] = 1

\* C10: for a table of N >= 1 rows and T columns the mean and the variance
\* have length T, N * mean[t] is the sum over the rows of table[j, t] and
\* N^2 * var[t] is N * (sum of table[j, t]^2) - (sum of table[j, t])^2
Column(t) == [j \in 1 .. Len(result) |-> result[j][t]]
ColumnSquared(t) == [j \in 1 .. Len(result) |-> result[j][t] * result[j][t]]
C13_RowMajorSlices ==
    /\ (pc = "done" /\ call.fn = "multiple_trajectories" /\ ValidArgs) =>
          LET N == call.numTrajectories
              T == call.T
              flat == vectorized_single_trajectory(rng, call.p, N * T, call.Seed).draws
              row == vectorized_single_trajectory(rng, call.p, T, call.Seed)
          IN  /\ error = "none"
              /\ Len(flat) = N * T
              /\ Len(draws) = N
              /\ \A j \in 0 .. (N - 1) :
                    /\ Len(draws[j + 1]) = T
                    /\ \A t \in 1 .. T : draws[j + 1][t] = flat[j * T + t]
              /\ result[1] = row.displacements
    /\ (pc = "done" /\ call.fn = "single_trajectory" /\ ValidArgs) =>
          draws = vectorized_single_trajectory(rng, call.p, call.T, call.Seed).draws
C13_Witness ==
    /\ Returned("multiple_trajectories")
    /\ call.numTrajectories = 3
    /\ call.T = 3
    /\ draws[1] # draws[2]
    /\ draws[1] = draws[3]
    /\ result[1] = vectorized_single_trajectory(rng, call.p, 3, call.Seed).displacements

\* C14: single_trajectory always comes to its end, having made exactly T
\* draws (one per iteration, none repeated), and returns T entries, entry t
\* being the running total of the first t steps (not the step itself); the
\* starting displacement 0 is not part of the output.  Termination is stated
\* by its variant: inside the loop a next step is always possible, each
\* iteration makes one draw and adds one entry, at most T entries are ever
\* held, and with T entries the only step is the return
InScalarLoop == pc \in {"loop", "done"} /\ call.fn = "single_trajectory"
                    /\ ValidP(call.p)
C14_RunningTotals ==
    InScalarLoop =>
        /\ Len(displacements) <= call.T
        /\ Len(draws) = Len(displacements)
        /\ Len(steps) = Len(displacements)
        /\ \A t \in 1 .. Len(displacements) :
              displacements[t] =
                  (IF t = 1 THEN 0 ELSE displacements[t - 1]) + steps[t]
        /\ displacement =
              (IF displacements = <<>> THEN 0
               ELSE displacements[Len(displacements)])
        /\ pc = "done" =>
              /\ error = "none"
              /\ Len(draws) = call.T
              /\ Len(result) = call.T
              /\ result = displacements
C14_LoopStep ==
    /\ C14_RunningTotals
    /\ C14_RunningTotals'
    /\ (InScalarLoop /\ pc = "loop") =>
          /\ call' = call
          /\ \/ /\ Len(displacements) < call.T
                /\ pc' = "loop"
                /\ Len(draws') = Len(draws) + 1
                /\ Len(displacements') = Len(displacements) + 1
             \/ /\ Len(displacements) = call.T
                /\ pc' = "done"
                /\ draws' = draws
                /\ result' = displacements
C14_ScalarLoopTerminates ==
    /\ [](InScalarLoop /\ pc = "loop" =>
            ENABLED (Step_single_trajectory \/ Return_single_trajectory))
    /\ [][C14_LoopStep]_vars
C14_Witness ==
    /\ Returned("single_trajectory")
    /\ call.T = 4
    /\ Len(draws) = 4
    /\ steps = <<1, -1, 1, -1>>
    /\ result = <<1, 0, 1, 0>>

\* C15: in every trajectory of any engine the displacement after t steps lies
\* between -t and t and has the parity of t (X_t - t is even); this holds for
\* the running displacement and every entry held at each intermediate step of
\* the scalar accumulation loop, and for every entry of every returned
\* trajectory (each row of a batch)
BoundAndParity(x, t) == -t <= x /\ x <= t /\ (x - t) % 2 = 0
TrajectoryInCone(x) == \A t \in 1 .. Len(x) : BoundAndParity(x[t], t)
C15_BoundAndParity ==
    /\ InScalarLoop =>
          /\ TrajectoryInCone(displacements)
          /\ BoundAndParity(displacement, Len(displacements))
    /\ (Returned("single_trajectory") \/ Returned("vectorized_single_trajectory"))
          => TrajectoryInCone(result)
    /\ Returned("multiple_trajectories") =>
          \A j \in 1 .. Len(result) : TrajectoryInCone(result[j])
C15_Witness ==
    /\ pc = "loop"
    /\ call.fn = "single_trajectory"
    /\ call.T = 5
    /\ displacements = <<-1, -2, -3>>
    /\ displacement = -3

\* C11: the expected final displacement of a T-step walk with bias p is
\* (2p - 1) T: X_T summed over all 2^T step sequences, each weighted by
\* p^(number of +1 steps) * (1 - p)^(number of -1 steps), is (2p - 1) T, and
\* 0 for p = 1/2.  With p = a / MeanDen the weights are counted in units of
\* MeanDen^(-T): they add up to MeanDen^T (total probability 1) and
\* sum / weight = (2a - MeanDen) T / MeanDen
RECURSIVE Pow(_, _)
Pow(x, n) == IF n = 0 THEN 1 ELSE x * Pow(x, n - 1)
C11_ExpectedDisplacement ==
    (pc = "done" /\ call.fn = "expected_value") =>
        /\ stats.weight = Pow(MeanDen, call.T)
        /\ stats.sum * MeanDen = (2 * call.p - MeanDen) * call.T * stats.weight
        /\ (2 * call.p = MeanDen) => stats.sum = 0
C11_Witness ==
    /\ pc = "done"
    /\ call.fn = "expected_value"
    /\ call.p = 1
    /\ call.T = 3
    /\ draws = <<1, 1, 1>>
    /\ stats = [sum |-> -96, weight |-> 64]

\* C12: row independence of the batch: row j of the result depends only on row
\* j of the drawn table.  Whatever the order and interleaving in which the rows
\* are encoded and summed, every partly worked row is the beginning of the row
\* the batch computes in one piece (encode, cumsum along axis=1), the finished
\* table is that table, and replacing the draws of one row by any others
\* changes no other row of the result
InSequence(values) ==
    np_cumsum_axis1([j \in 1 .. Len(values) |-> vectorized_convert_value(values[j])])
C12_RowIndependence ==
    LET n == call.numTrajectories
        whole == InSequence(draws)
    IN  /\ \A j \in 1 .. n :
              /\ Len(result[j]) <= call.T
              /\ \A t \in 1 .. Len(result[j]) : result[j][t] = whole[j][t]
        /\ pc = "done" => result = whole
        /\ \A j \in 1 .. n : \A row \in [1 .. call.T -> Variates] :
              LET other == InSequence([draws EXCEPT ![j] = row])
              IN  \A k \in (1 .. n) \ {j} : other[k] = whole[k]
C12_Witness ==
    /\ pc = "rows"
    /\ call.numTrajectories = 2
    /\ call.T = 2
    /\ draws = <<(<<1, 1>>), (<<0, 1>>)>>
    /\ result = <<(<<1>>), (<<-1, 0>>)>>

====
